---- MODULE Spec2Model ----
(***************************************************************************)
(* Model of pose_extractor.py: the PoseExtractor class (extract_keypoints, *)
(* extract_keypoints_from_base64, visualize_pose, _get_keypoint_name) and  *)
(* the Flask handlers extract_pose_api, visualize_pose_api and             *)
(* batch_extract_api, run by concurrent request threads that share one     *)
(* working directory, one wall clock and the module-level pose_extractor.  *)
(*                                                                         *)
(* Two specifications:                                                     *)
(*   Spec          the HTTP server: Requests concurrent requests           *)
(*   ExtractorSpec one call of an extractor method on a drawn input        *)
(***************************************************************************)
EXTENDS Integers, Sequences, FiniteSets, TLC

VARIABLES
    clock,      \* datetime.now() truncated to the second (strftime %Y%m%d_%H%M%S)
    disk,       \* working directory: path -> bytes of the file at that path
    inProcess,  \* requests currently inside pose_extractor.pose.process(...)
    pc,         \* per request: position in its handler
    req,        \* per request: the HTTP request (endpoint, files, JSON body)
    idx,        \* per request: batch loop position (index into files)
    temp,       \* per request: temp_path / temp_input, <<>> when unset
    outp,       \* per request: output_path of visualize_pose, <<>> when unset
    image,      \* per request: the image cv2.imread returned, <<>> when unset/None
    results,    \* per request: PoseResults built so far (batch: the results list)
    resp,       \* per request: the response sent, <<>> before it is sent
    call,       \* ExtractorSpec: the arguments of the extractor call
    ret         \* ExtractorSpec: what the call returned, <<>> before it returns

vars == <<clock, disk, inProcess, pc, req, idx, temp, outp, image, results, resp, call, ret>>
httpVars == <<clock, disk, inProcess, pc, req, idx, temp, outp, image, results, resp>>

----------------------------------------------------------------------------
(* Bounds *)

Requests == 2          \* concurrent HTTP requests
MaxClock == 1          \* clock seconds 0..MaxClock
MaxBatch == 2          \* files in one /batch-extract request
MaxB64Len == 6         \* characters of a base64_image string
MaxOverflow == 1       \* landmarks a non-conformant model returns beyond the name table

Reqs == 1..Requests

----------------------------------------------------------------------------
(* PoseExtractor._get_keypoint_name *)

keypoint_names == <<
    "NOSE", "LEFT_EYE_INNER", "LEFT_EYE", "LEFT_EYE_OUTER",
    "RIGHT_EYE_INNER", "RIGHT_EYE", "RIGHT_EYE_OUTER",
    "LEFT_EAR", "RIGHT_EAR", "MOUTH_LEFT", "MOUTH_RIGHT",
    "LEFT_SHOULDER", "RIGHT_SHOULDER", "LEFT_ELBOW", "RIGHT_ELBOW",
    "LEFT_WRIST", "RIGHT_WRIST", "LEFT_PINKY", "RIGHT_PINKY",
    "LEFT_INDEX", "RIGHT_INDEX", "LEFT_THUMB", "RIGHT_THUMB",
    "LEFT_HIP", "RIGHT_HIP", "LEFT_KNEE", "RIGHT_KNEE",
    "LEFT_ANKLE", "RIGHT_ANKLE", "LEFT_HEEL", "RIGHT_HEEL",
    "LEFT_FOOT_INDEX", "RIGHT_FOOT_INDEX" >>

\* keypoint_names[idx] if idx < len(keypoint_names) else f"UNKNOWN_{idx}"
\* (Python indexes from 0, TLA+ sequences from 1)
GetKeypointName(i) ==
    IF i < Len(keypoint_names) THEN keypoint_names[i + 1]
    ELSE "UNKNOWN_" \o ToString(i)

----------------------------------------------------------------------------
(* The pose model: what self.pose.process(image_rgb) can do.               *)
(* results.pose_landmarks is None, or a landmark list; the call may raise. *)
(* A landmark is identified by pt, its position in the model's output.     *)

LandmarkCounts == {1, Len(keypoint_names)} \cup
                  (Len(keypoint_names) + 1 .. Len(keypoint_names) + MaxOverflow)

Landmarks(n) == [i \in 1..n |-> [pt |-> i - 1]]

ProcessOutcomes ==
    {[kind |-> "none"], [kind |-> "raise"]} \cup
    {[kind |-> "landmarks", landmark |-> Landmarks(n)] : n \in LandmarkCounts}

\* what a conformant model returns: no pose, or the full landmark list
ConformantOutcomes ==
    {[kind |-> "none"], [kind |-> "raise"],
     [kind |-> "landmarks", landmark |-> Landmarks(Len(keypoint_names))]}

----------------------------------------------------------------------------
(* Result dictionaries of extract_keypoints / extract_keypoints_from_base64 *)

\* datetime.now().isoformat(): the value of a timestamp field is not modelled
Timestamp == "isoformat"

\* except Exception as e: return {"success": False, "error": str(e), "timestamp": ...}
ErrorResult(msg) ==
    [success |-> FALSE, error |-> msg, timestamp |-> Timestamp]

\* seeded fault: enumerate(..., start=1)
KeypointsFrom1(landmark) ==
    [k \in 1..Len(landmark) |->
        [id |-> k, name |-> GetKeypointName(k), pt |-> landmark[k].pt]]

\* for idx, landmark in enumerate(results.pose_landmarks.landmark): append keypoint
\* (x, y, z, visibility are carried as pt, the landmark they are copied from)
Keypoints(landmark) ==
    [k \in 1..Len(landmark) |->
        [id |-> k - 1, name |-> GetKeypointName(k - 1), pt |-> landmark[k].pt]]

\* the keypoints_data dictionary; image_info is read off the decoded image,
\* carried here as the image itself
KeypointsData(img, outcome) ==
    [success |-> TRUE,
     timestamp |-> Timestamp,
     image_info |-> img,
     keypoints |-> IF outcome.kind = "landmarks" THEN Keypoints(outcome.landmark) ELSE <<>>,
     pose_detected |-> outcome.kind # "none"]

\* the part of both extractors after the image is decoded: process, then
\* build the dictionary; an exception of process is caught
AfterDecode(img, outcome) ==
    IF outcome.kind = "raise"
    THEN ErrorResult("pose.process failed")
    ELSE KeypointsData(img, outcome)

----------------------------------------------------------------------------
(* Files and images.  The bytes of a file are [owner, n, kind]: owner is   *)
(* the request that wrote them, n the entry of its files they come from,   *)
(* and kind says whether an image codec can decode them.                   *)

Kinds == {"image", "junk"}

Decodable(bytes) == bytes.kind = "image"

\* cv2.imread(image_path): the decoded image, or None (here <<>>) when the
\* path does not exist or its bytes are no image
Imread(d, path) ==
    IF path \in DOMAIN d /\ Decodable(d[path]) THEN <<d[path]>> ELSE <<>>

\* seeded fault: a failed read is not turned into an exception
ExtractKeypointsNoCheck(img, path, outcome) ==
    IF img = <<>> THEN KeypointsData(<<>>, [kind |-> "none"])
    ELSE AfterDecode(img[1], outcome)

\* extract_keypoints, given what imread returned
ExtractKeypoints(img, path, outcome) ==
    IF img = <<>> THEN ErrorResult("Could not read image from " \o path.pre)
    ELSE AfterDecode(img[1], outcome)

----------------------------------------------------------------------------
(* Base64 input.  A base64_image string is a sequence of characters over   *)
(* Chars: the comma, a character outside the base64 alphabet (":"), and    *)
(* two characters of the alphabet.  A JSON value that is no string is      *)
(* [isstr |-> FALSE].                                                      *)

Chars == {",", ":", "A", "i"}
B64Alphabet == {"A", "i"}

RECURSIVE SeqsUpTo(_)
SeqsUpTo(n) ==
    IF n = 0 THEN {<<>>}
    ELSE LET shorter == SeqsUpTo(n - 1)
         IN shorter \cup {Append(s, c) : s \in {t \in shorter : Len(t) = n - 1}, c \in Chars}

B64Strings == SeqsUpTo(MaxB64Len)

NotAString == [isstr |-> FALSE, s |-> <<>>]
Str(s) == [isstr |-> TRUE, s |-> s]

HasComma(s) == \E k \in 1..Len(s) : s[k] = ","

FirstComma(s) == CHOOSE k \in 1..Len(s) : s[k] = "," /\ \A j \in 1..(k - 1) : s[j] # ","

\* str.split(','): the pieces between the commas
RECURSIVE Split(_)
Split(s) ==
    IF ~HasComma(s) THEN <<s>>
    ELSE LET k == FirstComma(s)
         IN <<SubSeq(s, 1, k - 1)>> \o Split(SubSeq(s, k + 1, Len(s)))

\* base64_image.split(',')[1] if ',' in base64_image else base64_image
\* (Python's [1] is the second piece)
Payload(s) == IF HasComma(s) THEN Split(s)[2] ELSE s

RECURSIVE Filter(_)
Filter(s) ==
    IF s = <<>> THEN <<>>
    ELSE IF Head(s) \in B64Alphabet THEN <<Head(s)>> \o Filter(Tail(s))
    ELSE Filter(Tail(s))

\* base64.b64decode(s) with validate=False: characters outside the alphabet
\* are discarded, and what is left must be whole 4-character quanta
\* (binascii.Error otherwise).  The bytes are carried as the characters
\* that encode them.
B64Decode(s) ==
    LET data == Filter(s)
    IN IF Len(data) % 4 # 0 THEN [ok |-> FALSE, bytes |-> <<>>]
       ELSE [ok |-> TRUE, bytes |-> data]

\* the bytes an image codec accepts: they start with the codec's magic
Magic == <<"i", "i", "i", "i">>
IsImageBytes(b) == Len(b) >= Len(Magic) /\ SubSeq(b, 1, Len(Magic)) = Magic

\* cv2.imdecode(np.frombuffer(image_data, np.uint8), cv2.IMREAD_COLOR):
\* the image, or None (<<>>) for an empty or invalid buffer
Imdecode(b) == IF IsImageBytes(b) THEN <<[kind |-> "image", bytes |-> b]>> ELSE <<>>

\* extract_keypoints_from_base64: every exception inside is caught and
\* returned as an error dictionary
ExtractKeypointsFromBase64(b64, outcome) ==
    IF ~b64.isstr THEN ErrorResult("argument of type 'int' is not iterable")
    ELSE LET d == B64Decode(Payload(b64.s))
         IN IF ~d.ok THEN ErrorResult("Incorrect padding")
            ELSE IF Imdecode(d.bytes) = <<>>
                 THEN ErrorResult("Could not decode base64 image")
                 ELSE AfterDecode(Imdecode(d.bytes)[1], outcome)

----------------------------------------------------------------------------
(* HTTP requests *)

EmptyName == [stem |-> "", ext |-> ""]
NameA == [stem |-> "a", ext |-> ".jpg"]
NameB == [stem |-> "b", ext |-> ".jpg"]

\* an entry of request.files: the client's filename and the uploaded bytes.
\* A single upload is a file named a.jpg, an image or not, or an entry with
\* no file selected; a batch entry is an image a.jpg, a non-image b.jpg, or
\* an entry with no file selected.
NoFileSelected == [filename |-> EmptyName, kind |-> "junk"]
Uploads == {NoFileSelected} \cup {[filename |-> NameA, kind |-> k] : k \in Kinds}
BatchUploads ==
    {NoFileSelected, [filename |-> NameA, kind |-> "image"], [filename |-> NameB, kind |-> "junk"]}

RECURSIVE UploadSeqs(_, _)
UploadSeqs(U, n) ==
    IF n = 0 THEN {<<>>}
    ELSE LET shorter == UploadSeqs(U, n - 1)
         IN shorter \cup {Append(s, u) : s \in {t \in shorter : Len(t) = n - 1}, u \in U}

\* request.json: absent (no JSON body), or an object with or without the key
NoJson == [present |-> FALSE, base64_image |-> <<>>]
\* base64_image values sent over HTTP: an image, an image behind a data-URL
\* comma, base64 of something that is no image, a string that is not base64,
\* and a JSON value that is no string
HttpB64 == {Str(Magic), Str(<<",">> \o Magic), Str(<<"A", "A", "A", "A">>), Str(<<"A">>), NotAString}
JsonBodies ==
    {NoJson, [present |-> TRUE, base64_image |-> <<>>]} \cup
    {[present |-> TRUE, base64_image |-> <<b>>] : b \in HttpB64}

ExtractPoseRequests ==
    {[ep |-> "extract", files |-> <<u>>, json |-> NoJson] : u \in Uploads} \cup
    {[ep |-> "extract", files |-> <<>>, json |-> j] : j \in JsonBodies}
VisualizeRequests ==
    {[ep |-> "visualize", files |-> f, json |-> NoJson] : f \in UploadSeqs(Uploads, 1)}
BatchRequests ==
    {[ep |-> "batch", files |-> f, json |-> NoJson] : f \in UploadSeqs(BatchUploads, MaxBatch)}

NoRequest == [ep |-> "", files |-> <<>>, json |-> NoJson]

----------------------------------------------------------------------------
(* Paths and the working directory *)

\* f"{prefix}_{datetime.now().strftime('%Y%m%d_%H%M%S')}_{file.filename}"
TempPath(prefix, now, filename) ==
    [pre |-> prefix, ts |-> now, stem |-> filename.stem, ext |-> filename.ext, ts2 |-> <<>>]

\* base_name = os.path.splitext(os.path.basename(image_path))[0]
\* f"pose_visualization_{base_name}_{datetime.now().strftime(...)}.jpg"
VisualizationPath(image_path, now) ==
    [pre |-> "pose_visualization_" \o image_path.pre, ts |-> image_path.ts,
     stem |-> image_path.stem, ext |-> ".jpg", ts2 |-> <<now>>]

Exists(p) == p \in DOMAIN disk
Written(d, p, bytes) == [q \in DOMAIN d \cup {p} |-> IF q = p THEN bytes ELSE d[q]]
Removed(d, p) == [q \in DOMAIN d \ {p} |-> d[q]]

\* the bytes request r uploaded as entry n of its files
UploadBytes(r, n) == [owner |-> r, n |-> n, kind |-> req[r].files[n].kind]

----------------------------------------------------------------------------
(* Responses *)

Respond(r, status, body) ==
    /\ resp' = [resp EXCEPT ![r] = <<[status |-> status, body |-> body]>>]
    /\ pc' = [pc EXCEPT ![r] = "done"]

\* the handlers' except Exception: jsonify({success: False, error, timestamp}), 500
Error500(r, msg) == Respond(r, 500, ErrorResult(msg))

Goto(r, label) == pc' = [pc EXCEPT ![r] = label]

----------------------------------------------------------------------------
(* Steps shared by the handlers *)

\* file.save(temp_path) of entry n: the file is written; or the call raises
\* before the file is created (open fails); or it raises after part of the
\* bytes are written (the device fills up), leaving the truncated file.
\* An exception goes to the handler's except block.
FileSave(r, n, next) ==
    LET path == temp[r][1]
    IN \/ /\ disk' = Written(disk, path, UploadBytes(r, n))
          /\ Goto(r, next)
          /\ UNCHANGED resp
       \/ /\ Error500(r, "Permission denied")
          /\ UNCHANGED disk
       \/ /\ disk' = Written(disk, path, [UploadBytes(r, n) EXCEPT !.kind = "truncated"])
          /\ Error500(r, "No space left on device")

\* result = pose_extractor.extract_keypoints(temp_path)
Single(res) == <<res>>

\* result['filename'] = file.filename; results.append(result)
BatchAnnotate(r, res) ==
    Append(results[r], res @@ [filename |-> req[r].files[idx[r]].filename])

\* what the calling handler does with the dictionary extract_keypoints returns
Keep(r, res) == IF req[r].ep = "batch" THEN BatchAnnotate(r, res) ELSE Single(res)

\* extract_keypoints(temp_path) up to the call of self.pose.process: imread,
\* and for None the ValueError that the method's own except turns into the
\* error dictionary the handler keeps; otherwise the request enters process
ExtractRead(r) ==
    LET path == temp[r][1]
        img == Imread(disk, path)
    IN /\ image' = [image EXCEPT ![r] = img]
       /\ IF img = <<>>
          THEN /\ results' = [results EXCEPT
                     ![r] = Keep(r, ExtractKeypoints(img, path, [kind |-> "none"]))]
               /\ Goto(r, "remove")
               /\ UNCHANGED inProcess
          ELSE /\ inProcess' = inProcess \cup {r}
               /\ Goto(r, "process")
               /\ UNCHANGED results

\* self.pose.process returns (or raises) and extract_keypoints builds its
\* dictionary, which the handler keeps
ExtractReturn(r) ==
    \E outcome \in ConformantOutcomes :
        /\ results' = [results EXCEPT
              ![r] = Keep(r, ExtractKeypoints(image[r], temp[r][1], outcome))]
        /\ inProcess' = inProcess \ {r}
        /\ Goto(r, "remove")

----------------------------------------------------------------------------
(* extract_pose_api *)

ExtractPoseStart(r) ==
    /\ pc[r] = "idle"
    /\ \E q \in ExtractPoseRequests :
        /\ req' = [req EXCEPT ![r] = q]
        /\ IF q.files # <<>>
           THEN IF q.files[1].filename = EmptyName
                THEN /\ Respond(r, 400, [error |-> "No file selected"])
                     /\ UNCHANGED temp
                ELSE /\ temp' = [temp EXCEPT ![r] = <<TempPath("temp", clock, q.files[1].filename)>>]
                     /\ Goto(r, "save")
                     /\ UNCHANGED resp
           ELSE /\ UNCHANGED temp
                /\ IF ~q.json.present
                   \* 'base64_image' in request.json with no JSON body: raises
                   THEN Error500(r, "argument of type 'NoneType' is not iterable")
                   ELSE IF q.json.base64_image # <<>>
                        THEN Goto(r, "base64") /\ UNCHANGED resp
                        ELSE Respond(r, 400, [error |-> "No image provided"])
    /\ UNCHANGED <<clock, disk, inProcess, idx, outp, image, results, call, ret>>

ExtractPoseSave(r) ==
    /\ pc[r] = "save" /\ req[r].ep = "extract"
    /\ FileSave(r, 1, "extract")
    /\ UNCHANGED <<clock, inProcess, req, idx, temp, outp, image, results, call, ret>>

ExtractPoseRead(r) ==
    /\ pc[r] = "extract" /\ req[r].ep = "extract"
    /\ ExtractRead(r)
    /\ UNCHANGED <<clock, disk, req, idx, temp, outp, resp, call, ret>>

ExtractPoseProcess(r) ==
    /\ pc[r] = "process" /\ req[r].ep = "extract"
    /\ ExtractReturn(r)
    /\ UNCHANGED <<clock, disk, req, idx, temp, outp, image, resp, call, ret>>

\* os.remove(temp_path); return jsonify(result)
ExtractPoseRemove(r) ==
    /\ pc[r] = "remove" /\ req[r].ep = "extract"
    /\ IF Exists(temp[r][1])
       THEN /\ disk' = Removed(disk, temp[r][1])
            /\ Respond(r, 200, results[r][1])
       ELSE /\ Error500(r, "No such file or directory")
            /\ UNCHANGED disk
    /\ UNCHANGED <<clock, inProcess, req, idx, temp, outp, image, results, call, ret>>

\* the base64 branch up to the call of self.pose.process: a string that does
\* not decode to an image gives the error dictionary at once
ExtractPoseBase64(r) ==
    /\ pc[r] = "base64"
    /\ LET b64 == req[r].json.base64_image[1]
           early == ExtractKeypointsFromBase64(b64, [kind |-> "none"])
       IN IF ~early.success
          THEN /\ results' = [results EXCEPT ![r] = <<early>>]
               /\ Respond(r, 200, early)
               /\ UNCHANGED inProcess
          ELSE /\ inProcess' = inProcess \cup {r}
               /\ Goto(r, "base64process")
               /\ UNCHANGED <<results, resp>>
    /\ UNCHANGED <<clock, disk, req, idx, temp, outp, image, call, ret>>

ExtractPoseBase64Process(r) ==
    /\ pc[r] = "base64process"
    /\ \E outcome \in ConformantOutcomes :
        LET res == ExtractKeypointsFromBase64(req[r].json.base64_image[1], outcome)
        IN /\ results' = [results EXCEPT ![r] = <<res>>]
           /\ Respond(r, 200, res)
    /\ inProcess' = inProcess \ {r}
    /\ UNCHANGED <<clock, disk, req, idx, temp, outp, image, call, ret>>

----------------------------------------------------------------------------
(* visualize_pose_api and PoseExtractor.visualize_pose *)

VisualizeStart(r) ==
    /\ pc[r] = "idle"
    /\ \E q \in VisualizeRequests :
        /\ req' = [req EXCEPT ![r] = q]
        /\ IF q.files = <<>>
           THEN /\ Respond(r, 400, [error |-> "No image file provided"])
                /\ UNCHANGED temp
           ELSE IF q.files[1].filename = EmptyName
                THEN /\ Respond(r, 400, [error |-> "No file selected"])
                     /\ UNCHANGED temp
                ELSE /\ temp' = [temp EXCEPT
                           ![r] = <<TempPath("temp_input", clock, q.files[1].filename)>>]
                     /\ Goto(r, "save")
                     /\ UNCHANGED resp
    /\ UNCHANGED <<clock, disk, inProcess, idx, outp, image, results, call, ret>>

VisualizeSave(r) ==
    /\ pc[r] = "save" /\ req[r].ep = "visualize"
    /\ FileSave(r, 1, "visualize")
    /\ UNCHANGED <<clock, inProcess, req, idx, temp, outp, image, results, call, ret>>

\* visualize_pose up to the call of self.pose.process: imread returns None
\* for an unreadable file and cvtColor(None) raises, which visualize_pose
\* re-raises as "Visualization failed: ..." to the handler's except block
VisualizeRead(r) ==
    /\ pc[r] = "visualize"
    /\ LET img == Imread(disk, temp[r][1])
       IN /\ image' = [image EXCEPT ![r] = img]
          /\ IF img = <<>>
             THEN /\ Error500(r, "Visualization failed")
                  /\ UNCHANGED inProcess
             ELSE /\ inProcess' = inProcess \cup {r}
                  /\ Goto(r, "visprocess")
                  /\ UNCHANGED resp
    /\ UNCHANGED <<clock, disk, req, idx, temp, outp, results, call, ret>>

\* self.pose.process returns or raises; the landmarks are drawn, output_path
\* is named from the input path and the clock, and cv2.imwrite writes the
\* file or returns False without writing it
VisualizeProcess(r) ==
    /\ pc[r] = "visprocess"
    /\ inProcess' = inProcess \ {r}
    /\ \E outcome \in ConformantOutcomes :
        IF outcome.kind = "raise"
        THEN /\ Error500(r, "Visualization failed")
             /\ UNCHANGED <<disk, outp>>
        ELSE LET output_path == VisualizationPath(temp[r][1], clock)
             IN /\ outp' = [outp EXCEPT ![r] = <<output_path>>]
                /\ \/ disk' = Written(disk, output_path,
                                      [owner |-> r, n |-> 1, kind |-> "visualization"])
                   \/ UNCHANGED disk
                /\ Goto(r, "visopen")
                /\ UNCHANGED resp
    /\ UNCHANGED <<clock, req, idx, temp, image, results, call, ret>>

\* with open(output_path, 'rb') as img_file: img_base64 = b64encode(img_file.read())
VisualizeOpen(r) ==
    /\ pc[r] = "visopen"
    /\ IF Exists(outp[r][1])
       THEN /\ results' = [results EXCEPT ![r] = <<disk[outp[r][1]]>>]
            /\ Goto(r, "visremoveinput")
            /\ UNCHANGED resp
       ELSE /\ Error500(r, "No such file or directory")
            /\ UNCHANGED results
    /\ UNCHANGED <<clock, disk, inProcess, req, idx, temp, outp, image, call, ret>>

\* os.remove(temp_input)
VisualizeRemoveInput(r) ==
    /\ pc[r] = "visremoveinput"
    /\ IF Exists(temp[r][1])
       THEN /\ disk' = Removed(disk, temp[r][1])
            /\ Goto(r, "visremoveoutput")
            /\ UNCHANGED resp
       ELSE /\ Error500(r, "No such file or directory")
            /\ UNCHANGED disk
    /\ UNCHANGED <<clock, inProcess, req, idx, temp, outp, image, results, call, ret>>

\* os.remove(output_path); return jsonify({success: True, visualization, timestamp})
VisualizeRemoveOutput(r) ==
    /\ pc[r] = "visremoveoutput"
    /\ IF Exists(outp[r][1])
       THEN /\ disk' = Removed(disk, outp[r][1])
            /\ Respond(r, 200, [success |-> TRUE, visualization |-> results[r][1],
                                timestamp |-> Timestamp])
       ELSE /\ Error500(r, "No such file or directory")
            /\ UNCHANGED disk
    /\ UNCHANGED <<clock, inProcess, req, idx, temp, outp, image, results, call, ret>>

----------------------------------------------------------------------------
(* batch_extract_api *)

\* 'images' is a key of request.files exactly when a file was sent under it
BatchStart(r) ==
    /\ pc[r] = "idle"
    /\ \E q \in BatchRequests :
        /\ req' = [req EXCEPT ![r] = q]
        /\ IF q.files = <<>>
           THEN Respond(r, 400, [error |-> "No images provided"])
           ELSE Goto(r, "loop") /\ UNCHANGED resp
    /\ UNCHANGED <<clock, disk, inProcess, idx, temp, outp, image, results, call, ret>>

\* seeded fault: an entry with an empty filename is processed like any other
BatchSkipsNothing(file) == FALSE

\* if file.filename == '': continue
BatchSkips(file) == file.filename = EmptyName

\* for file in files: the loop header, the skip, and the naming of temp_path;
\* after the last entry the success body is returned
BatchLoop(r) ==
    /\ pc[r] = "loop"
    /\ IF idx[r] > Len(req[r].files)
       THEN /\ Respond(r, 200, [success |-> TRUE, total_processed |-> Len(results[r]),
                                results |-> results[r], timestamp |-> Timestamp])
            /\ UNCHANGED <<idx, temp>>
       ELSE IF BatchSkips(req[r].files[idx[r]])
            THEN /\ idx' = [idx EXCEPT ![r] = @ + 1]
                 /\ UNCHANGED <<pc, resp, temp>>
            ELSE /\ temp' = [temp EXCEPT
                       ![r] = <<TempPath("temp", clock, req[r].files[idx[r]].filename)>>]
                 /\ Goto(r, "save")
                 /\ UNCHANGED <<idx, resp>>
    /\ UNCHANGED <<clock, disk, inProcess, req, outp, image, results, call, ret>>

BatchSave(r) ==
    /\ pc[r] = "save" /\ req[r].ep = "batch"
    /\ FileSave(r, idx[r], "extract")
    /\ UNCHANGED <<clock, inProcess, req, idx, temp, outp, image, results, call, ret>>

BatchRead(r) ==
    /\ pc[r] = "extract" /\ req[r].ep = "batch"
    /\ ExtractRead(r)
    /\ UNCHANGED <<clock, disk, req, idx, temp, outp, resp, call, ret>>

BatchProcess(r) ==
    /\ pc[r] = "process" /\ req[r].ep = "batch"
    /\ ExtractReturn(r)
    /\ UNCHANGED <<clock, disk, req, idx, temp, outp, image, resp, call, ret>>

\* os.remove(temp_path), then the next entry
BatchRemove(r) ==
    /\ pc[r] = "remove" /\ req[r].ep = "batch"
    /\ IF Exists(temp[r][1])
       THEN /\ disk' = Removed(disk, temp[r][1])
            /\ idx' = [idx EXCEPT ![r] = @ + 1]
            /\ Goto(r, "loop")
            /\ UNCHANGED resp
       ELSE /\ Error500(r, "No such file or directory")
            /\ UNCHANGED <<disk, idx>>
    /\ UNCHANGED <<clock, inProcess, req, temp, outp, image, results, call, ret>>

----------------------------------------------------------------------------
(* Specification of the server *)

Tick ==
    /\ clock < MaxClock
    /\ clock' = clock + 1
    /\ UNCHANGED <<disk, inProcess, pc, req, idx, temp, outp, image, results, resp, call, ret>>

NoCall == [method |-> ""]

Init ==
    /\ clock = 0
    /\ disk = <<>>
    /\ inProcess = {}
    /\ pc = [r \in Reqs |-> "idle"]
    /\ req = [r \in Reqs |-> NoRequest]
    /\ idx = [r \in Reqs |-> 1]
    /\ temp = [r \in Reqs |-> <<>>]
    /\ outp = [r \in Reqs |-> <<>>]
    /\ image = [r \in Reqs |-> <<>>]
    /\ results = [r \in Reqs |-> <<>>]
    /\ resp = [r \in Reqs |-> <<>>]
    /\ call = NoCall
    /\ ret = <<>>

Next ==
    \/ Tick
    \/ \E r \in Reqs : ExtractPoseStart(r)
    \/ \E r \in Reqs : ExtractPoseSave(r)
    \/ \E r \in Reqs : ExtractPoseRead(r)
    \/ \E r \in Reqs : ExtractPoseProcess(r)
    \/ \E r \in Reqs : ExtractPoseRemove(r)
    \/ \E r \in Reqs : ExtractPoseBase64(r)
    \/ \E r \in Reqs : ExtractPoseBase64Process(r)
    \/ \E r \in Reqs : VisualizeStart(r)
    \/ \E r \in Reqs : VisualizeSave(r)
    \/ \E r \in Reqs : VisualizeRead(r)
    \/ \E r \in Reqs : VisualizeProcess(r)
    \/ \E r \in Reqs : VisualizeOpen(r)
    \/ \E r \in Reqs : VisualizeRemoveInput(r)
    \/ \E r \in Reqs : VisualizeRemoveOutput(r)
    \/ \E r \in Reqs : BatchStart(r)
    \/ \E r \in Reqs : BatchLoop(r)
    \/ \E r \in Reqs : BatchSave(r)
    \/ \E r \in Reqs : BatchRead(r)
    \/ \E r \in Reqs : BatchProcess(r)
    \/ \E r \in Reqs : BatchRemove(r)

Spec == Init /\ [][Next]_vars

----------------------------------------------------------------------------
(* Specification of one extractor call: the method and its input are drawn *)
(* in the initial state, the action runs the method to its return.         *)

CallPath == TempPath("image", 0, NameA)

Calls ==
    {[method |-> "extract_keypoints", file |-> f, arg |-> NotAString, outcome |-> o] :
        f \in {<<>>} \cup {<<[kind |-> k]>> : k \in Kinds}, o \in ProcessOutcomes} \cup
    {[method |-> "extract_keypoints_from_base64", file |-> <<>>, arg |-> a, outcome |-> o] :
        a \in {NotAString} \cup {Str(t) : t \in B64Strings}, o \in ProcessOutcomes}

\* the directory the call sees: the file at CallPath, if there is one
CallDisk == IF call.file = <<>> THEN <<>> ELSE Written(<<>>, CallPath, call.file[1])

\* ret records the returned dictionary and, for the base64 method, the
\* string that was handed to base64.b64decode
CallExtractKeypoints ==
    /\ call.method = "extract_keypoints"
    /\ ret = <<>>
    /\ ret' = <<[result |-> ExtractKeypoints(Imread(CallDisk, CallPath), CallPath, call.outcome),
                b64decode_arg |-> <<>>]>>
    /\ UNCHANGED <<httpVars, call>>

CallExtractKeypointsFromBase64 ==
    /\ call.method = "extract_keypoints_from_base64"
    /\ ret = <<>>
    /\ ret' = <<[result |-> ExtractKeypointsFromBase64(call.arg, call.outcome),
                b64decode_arg |-> IF call.arg.isstr THEN <<Payload(call.arg.s)>> ELSE <<>>]>>
    /\ UNCHANGED <<httpVars, call>>

ExtractorInit ==
    /\ clock = 0
    /\ disk = <<>>
    /\ inProcess = {}
    /\ pc = [r \in Reqs |-> "idle"]
    /\ req = [r \in Reqs |-> NoRequest]
    /\ idx = [r \in Reqs |-> 1]
    /\ temp = [r \in Reqs |-> <<>>]
    /\ outp = [r \in Reqs |-> <<>>]
    /\ image = [r \in Reqs |-> <<>>]
    /\ results = [r \in Reqs |-> <<>>]
    /\ resp = [r \in Reqs |-> <<>>]
    /\ call \in Calls
    /\ ret = <<>>

ExtractorNext ==
    \/ CallExtractKeypoints
    \/ CallExtractKeypointsFromBase64

ExtractorSpec == ExtractorInit /\ [][ExtractorNext]_vars

----------------------------------------------------------------------------
(* Properties of the server (Spec) *)

Done(r) == pc[r] = "done"
Response(r) == resp[r][1]
OwnFiles(r, prefixes) == {p \in DOMAIN disk : disk[p].owner = r /\ p.pre \in prefixes}

\* C1: when a /extract-pose upload request or a /batch-extract request has
\* completed, on whatever exit path, no temporary file temp_<timestamp>_<filename>
\* that the request wrote is left in the working directory.
C1_TempFileDeletedOnEveryExit ==
    \A r \in Reqs :
        (Done(r) /\ req[r].ep \in {"extract", "batch"}) => OwnFiles(r, {"temp"}) = {}

\* C2: when a /visualize-pose request that passed validation has completed,
\* with the success body or the 500 body, neither its temporary input file nor
\* the visualization file it wrote exists.
C2_VisualizeFilesDeleted ==
    \A r \in Reqs :
        (Done(r) /\ req[r].ep = "visualize" /\ temp[r] # <<>>) =>
            OwnFiles(r, {"temp_input", "pose_visualization_temp_input"}) = {}

\* C3: at most one request at a time is inside pose_extractor.pose.process.
C3_AdapterNeverConcurrent == Cardinality(inProcess) <= 1

UsingTemp(r) ==
    pc[r] \in {"save", "extract", "process", "remove", "visualize", "visprocess",
               "visopen", "visremoveinput"}

\* C4: two requests that are both using a temporary file use distinct paths,
\* and every successful result of an upload request is computed from bytes
\* that this request uploaded.
C4_TempFileExclusive ==
    /\ \A r1, r2 \in Reqs :
          (r1 # r2 /\ UsingTemp(r1) /\ UsingTemp(r2)) => temp[r1] # temp[r2]
    /\ \A r \in Reqs : \A k \in 1..Len(results[r]) :
          (req[r].ep \in {"extract", "batch"} /\ req[r].files # <<>> /\ results[r][k].success)
              => results[r][k].image_info.owner = r

NoImageGiven(q) ==
    \/ q.files = <<>> /\ (~q.json.present \/ q.json.base64_image = <<>>)
    \/ q.files # <<>> /\ q.files[1].filename = EmptyName

\* C5: a /extract-pose request with neither an 'image' file nor a JSON
\* 'base64_image' field (no JSON body at all included), or with an 'image'
\* file whose filename is empty, is answered 400; no temp file was named or
\* written for it and the model was not invoked.
C5_MissingInputIs400 ==
    \A r \in Reqs :
        (Done(r) /\ req[r].ep = "extract" /\ NoImageGiven(req[r])) =>
            /\ Response(r).status = 400
            /\ temp[r] = <<>> /\ results[r] = <<>> /\ image[r] = <<>>

\* C6: no /extract-pose response whose body has success = false is sent with
\* status 200: a failure after validation is answered 500.
C6_FailureIs500 ==
    \A r \in Reqs :
        (Done(r) /\ req[r].ep = "extract" /\ Response(r).status # 400
            /\ ~Response(r).body.success) => Response(r).status = 500

Attempted(files) == SelectSeq(files, LAMBDA f : f.filename # EmptyName)
EmptyCount(files) == Cardinality({i \in 1..Len(files) : files[i].filename = EmptyName})

\* C7: the success response of /batch-extract for N entries of which M have an
\* empty filename carries exactly one PoseResult per entry with a non-empty
\* filename, in upload order, each with that entry's filename, whether its
\* extraction succeeded or failed; total_processed = N - M = length of results.
C7_BatchResults ==
    \A r \in Reqs :
        (Done(r) /\ req[r].ep = "batch" /\ Response(r).status = 200) =>
            LET body == Response(r).body
                files == req[r].files
            IN /\ body.total_processed = Len(files) - EmptyCount(files)
               /\ Len(body.results) = body.total_processed
               /\ \A k \in 1..Len(body.results) :
                     /\ body.results[k].filename = Attempted(files)[k].filename
                     /\ body.results[k].success \in BOOLEAN

\* a batch of two entries answered with the success body: the first entry was
\* skipped for its empty filename, the second one failed to decode
C7_Witness ==
    \E r \in Reqs :
        /\ Done(r) /\ req[r].ep = "batch" /\ Response(r).status = 200
        /\ Len(req[r].files) >= 2
        /\ req[r].files[1].filename = EmptyName
        /\ EmptyCount(req[r].files) = 1
        /\ Response(r).body.total_processed = Len(req[r].files) - 1
        /\ ~Response(r).body.results[1].success

Last(seq) == seq[Len(seq)]

ReadsNoImage(r) == ~(Exists(temp[r][1]) /\ disk[temp[r][1]].kind = "image")

NoImageIn(b64) ==
    \/ ~b64.isstr
    \/ ~B64Decode(Payload(b64.s)).ok
    \/ ~IsImageBytes(B64Decode(Payload(b64.s)).bytes)

IsDecodeFailure(res) == ~res.success /\ res.error # ""

\* C8: when extract_keypoints reads a path that holds no decodable image, or
\* extract_keypoints_from_base64 is given a string that holds none, the method
\* returns a result with success = false and a non-empty error; the exception
\* does not reach the handler: the upload handlers go on to remove the temp
\* file and the base64 branch answers with that result.
C8_CorruptInputYieldsErrorResult ==
    [][\A r \in Reqs :
        /\ (pc[r] = "extract" /\ pc'[r] # "extract" /\ ReadsNoImage(r)) =>
                /\ pc'[r] = "remove"
                /\ results'[r] # <<>> /\ IsDecodeFailure(Last(results'[r]))
        /\ (pc[r] = "base64" /\ pc'[r] # "base64" /\ NoImageIn(req[r].json.base64_image[1])) =>
                /\ pc'[r] = "done"
                /\ resp'[r][1].status = 200
                /\ IsDecodeFailure(resp'[r][1].body)
      ]_vars

\* a non-image upload was answered with the error result, and the server
\* answered another request with a detected pose
C8_Witness ==
    \E r1, r2 \in Reqs :
        /\ r1 # r2 /\ Done(r1) /\ Done(r2)
        /\ req[r1].ep = "extract" /\ req[r1].files # <<>> /\ req[r1].files[1].kind = "junk"
        /\ Response(r1).status = 200 /\ IsDecodeFailure(Response(r1).body)
        /\ req[r2].ep = "extract" /\ Response(r2).status = 200
        /\ Response(r2).body.success /\ Response(r2).body.pose_detected

----------------------------------------------------------------------------
(* Properties of the extractor methods (ExtractorSpec) *)

Returned == ret # <<>>

\* C9: a successful result has an empty keypoints sequence exactly when
\* pose_detected is false; otherwise keypoint k (counting from 0) has id k, is
\* built from the model's landmark k, and is named by the name table entry k
\* (UNKNOWN_<k> beyond the table).
C9_KeypointsWellFormed ==
    (Returned /\ ret[1].result.success) =>
        LET res == ret[1].result
            n == Len(res.keypoints)
        IN /\ (n = 0) <=> ~res.pose_detected
           /\ res.pose_detected => n = Len(call.outcome.landmark)
           /\ \A k \in 1..n :
                /\ res.keypoints[k].id = k - 1
                /\ res.keypoints[k].pt = k - 1
                /\ res.keypoints[k].name =
                      IF k <= Len(keypoint_names) THEN keypoint_names[k]
                      ELSE "UNKNOWN_" \o ToString(k - 1)
           /\ n >= 1 => res.keypoints[1].name = "NOSE"
           /\ n >= Len(keypoint_names) =>
                 res.keypoints[Len(keypoint_names)].name = "RIGHT_FOOT_INDEX"

\* a conformant model's full landmark list was serialised from a base64 image
C9_Witness ==
    /\ Returned /\ ret[1].result.success
    /\ call.method = "extract_keypoints_from_base64"
    /\ Len(ret[1].result.keypoints) = Len(keypoint_names)

AfterFirstComma(s) == SubSeq(s, FirstComma(s) + 1, Len(s))

\* C10: for a base64 string with a comma, the image payload is everything after
\* the first comma, further commas included; without a comma it is the whole
\* string; an empty payload gives a failure result.
C10_PayloadAfterFirstComma ==
    (Returned /\ call.method = "extract_keypoints_from_base64" /\ call.arg.isstr) =>
        LET payload == IF HasComma(call.arg.s) THEN AfterFirstComma(call.arg.s) ELSE call.arg.s
        IN /\ ret[1].b64decode_arg = <<payload>>
           /\ payload = <<>> => ~ret[1].result.success

====
